---- MODULE Spec2Model ----
(***************************************************************************)
(* A model of the StayHere webhook client (src/stayhooks/client.py,        *)
(* models.py, errors.py): one synchronous client object, whose public      *)
(* methods validate their arguments, build one HTTP request, wait for the  *)
(* exchange to end and map the response to a typed result or an error.     *)
(*                                                                         *)
(* Python values are tagged records, so that values of different Python    *)
(* types can be compared.  A str is a sequence of symbols: a symbol is one *)
(* character wherever the code looks inside the string (strip, lower,      *)
(* startswith, the slashes of a URL) and otherwise a run of characters     *)
(* that no modelled operation splits ("webhooks", "tok").                  *)
(***************************************************************************)
EXTENDS Integers, Sequences, FiniteSets, TLC

VARIABLES
    given,      \* the arguments the client was constructed with
    client,     \* the client object's attributes (read-only after __init__)
    pc,         \* "idle": no call running; "built": the call has built its
                \* request; "waiting": the call is blocked in urlopen;
                \* "done": the call has returned or raised
    call,       \* the running call: its method and arguments
    req,        \* the HTTP request the call has built, or NoRequest
    nreq,       \* HTTP requests issued by the current call
    resp,       \* the outcome of the HTTP exchange, or NoResponse
    outcome     \* what the call gave its caller: a value or a raised error

vars == <<given, client, pc, call, req, nreq, resp, outcome>>

----------------------------------------------------------------------------
(* Bounds of the model *)

\* the longest permissions sequence a caller passes
MaxPerms == 3
\* the longest options sequence a caller passes to send_poll
MaxOpts == 9
\* the most empty or blank entries among those options
MaxBlank == 2
\* the longest notes sequence a caller passes to send_embed
MaxNotes == 2

----------------------------------------------------------------------------
(* Python values *)

None == [t |-> "none"]
Bool(b) == [t |-> "bool", b |-> b]
IntV(n) == [t |-> "int", n |-> n]
Str(s) == [t |-> "str", s |-> s]
List(a) == [t |-> "list", a |-> a]
Dict(d) == [t |-> "dict", d |-> d]

EmptyMap == [k \in {} |-> None]
EmptyDict == Dict(EmptyMap)

\* bool(v), `if v:`, `not v`
Truthy(v) ==
    CASE v.t = "none" -> FALSE
      [] v.t = "bool" -> v.b
      [] v.t = "int" -> v.n # 0
      [] v.t = "str" -> v.s # <<>>
      [] v.t = "list" -> v.a # <<>>
      [] v.t = "dict" -> DOMAIN v.d # {}
      [] v.t = "bytes" -> TRUE

\* a or b
Or(a, b) == IF Truthy(a) THEN a ELSE b

\* d[k] = v on a mapping
Put(d, k, v) == [j \in DOMAIN d \cup {k} |-> IF j = k THEN v ELSE d[j]]

\* d.update(e) on mappings
Update(d, e) == [j \in DOMAIN d \cup DOMAIN e |-> IF j \in DOMAIN e THEN e[j] ELSE d[j]]

\* d.get(k, default) on a mapping
Get(d, k, default) == IF k \in DOMAIN d THEN d[k] ELSE default

----------------------------------------------------------------------------
(* str operations *)

Whitespace == {" ", "\t", "\n", "\r"}

RECURSIVE LStripSet(_, _)
LStripSet(s, chars) ==
    IF s # <<>> /\ Head(s) \in chars THEN LStripSet(Tail(s), chars) ELSE s

RECURSIVE RStripSet(_, _)
RStripSet(s, chars) ==
    IF s # <<>> /\ s[Len(s)] \in chars
    THEN RStripSet(SubSeq(s, 1, Len(s) - 1), chars)
    ELSE s

\* s.strip(), s.strip(chars), s.rstrip(chars)
StripSet(s, chars) == RStripSet(LStripSet(s, chars), chars)
Strip(s) == StripSet(s, Whitespace)

UpperCase == <<"A", "B", "C", "D", "E", "F", "G", "H", "I", "J", "K", "L", "M",
               "N", "O", "P", "Q", "R", "S", "T", "U", "V", "W", "X", "Y", "Z">>
LowerCase == <<"a", "b", "c", "d", "e", "f", "g", "h", "i", "j", "k", "l", "m",
               "n", "o", "p", "q", "r", "s", "t", "u", "v", "w", "x", "y", "z">>

LowerChar(c) ==
    IF \E i \in 1..26 : UpperCase[i] = c
    THEN LowerCase[CHOOSE i \in 1..26 : UpperCase[i] = c]
    ELSE c

\* s.lower()
Lower(s) == [i \in 1..Len(s) |-> LowerChar(s[i])]

\* s.startswith(p)
StartsWith(s, p) == Len(s) >= Len(p) /\ SubSeq(s, 1, Len(p)) = p

\* urllib.parse.quote(s, safe=""): the reserved characters the model's
\* identifiers hold are escaped, every other symbol is unreserved
QuoteChar(c) ==
    CASE c = "/" -> "%2F"
      [] c = " " -> "%20"
      [] c = ":" -> "%3A"
      [] c = "?" -> "%3F"
      [] c = "%" -> "%25"
      [] OTHER -> c

\* StayHereWebhookClient._encode
_encode(value) == [i \in 1..Len(value.s) |-> QuoteChar(value.s[i])]

----------------------------------------------------------------------------
(* Construction *)

WEBHOOK_SECRET_HEADER == "x-stay-webhook-secret"

Message == <<"m", "e", "s", "s", "a", "g", "e">>
Embed == <<"e", "m", "b", "e", "d">>
Poll == <<"p", "o", "l", "l">>
Image == <<"i", "m", "a", "g", "e">>

DEFAULT_PERMISSIONS == <<Message, Embed, Poll, Image>>

\* StayHereWebhookClient._normalize_api_prefix
_normalize_api_prefix(prefix) ==
    IF ~Truthy(prefix) THEN <<>>
    ELSE LET trimmed == Strip(prefix.s)
         IN  IF trimmed = <<>> THEN <<>>
             ELSE <<"/">> \o StripSet(trimmed, {"/"})

\* StayHereWebhookClient.__init__
__init__(args) ==
    [base_url |-> RStripSet(args.base_url.s, {"/"}),
     token |-> args.token,
     api_prefix |-> _normalize_api_prefix(args.api_prefix),
     user_agent |-> Str(<<"stayhere-webhooks/0.1">>),
     default_alias |-> args.default_alias]

\* StayHereWebhookClient._build_url
_build_url(self, path) ==
    IF StartsWith(path, <<"h", "t", "t", "p", ":", "/", "/">>)
       \/ StartsWith(path, <<"h", "t", "t", "p", "s", ":", "/", "/">>)
    THEN path
    ELSE LET p == IF StartsWith(path, <<"/">>) THEN path ELSE <<"/">> \o path
         IN  self.base_url \o self.api_prefix \o p

----------------------------------------------------------------------------
(* Errors (errors.py) and what a call gives its caller *)

\* the base class of each exception class
Bases ==
    [StayHereError |-> "Exception",
     StayHereHTTPError |-> "StayHereError",
     StayHereAuthError |-> "StayHereHTTPError",
     StayHereWebhookInvokeError |-> "StayHereError",
     StayHereValidationError |-> "StayHereError",
     AttributeError |-> "Exception",
     TypeError |-> "Exception",
     ValueError |-> "Exception"]

RECURSIVE IsInstance(_, _)
IsInstance(cls, base) ==
    \/ cls = base
    \/ cls \in DOMAIN Bases /\ IsInstance(Bases[cls], base)

\* raise cls(...): status and payload are None where the class has no such
\* attribute
Raise(cls, status, message, payload) ==
    [k |-> "raise", cls |-> cls, status |-> status, message |-> message,
     payload |-> payload]

\* an exception of the interpreter: calling .get on a value that has none, ...
PyRaise(cls) == Raise(cls, None, None, None)

Return(v) == [k |-> "return", v |-> v]

\* the request reaches request.urlopen
Send(r) == [k |-> "send", req |-> r]

NoRequest == [method |-> "", url |-> <<>>, headers |-> EmptyMap, data |-> None]
NoResponse == [kind |-> "none"]
NoOutcome == [k |-> "none"]
NoCall == [op |-> ""]

----------------------------------------------------------------------------
(* JSON *)

\* json.dumps(body, separators=(",", ":")).encode("utf-8")
Dumps(body) == [t |-> "bytes", json |-> body]

S(x) == Str(<<x>>)

WebhookW1 ==
    Dict([id |-> S("w1"), label |-> S("L"), permissions |-> List(<<S("message")>>),
          paused |-> Bool(TRUE), invokeUrl |-> S("https://h/i")])

\* json.loads on the response bodies of the model: the value each text
\* parses to.  A text that is not listed here is not valid JSON.
JsonText ==
    ("{}" :> EmptyDict)
    @@ ("{\"error\":\"nope\"}" :> Dict([error |-> S("nope")]))
    @@ ("{\"error\":\"\"}" :> Dict([error |-> Str(<<>>)]))
    @@ ("[]" :> List(<<>>))
    @@ ("null" :> None)
    @@ ("\"nope\"" :> S("nope"))
    @@ ("{\"ok\":true,\"kind\":\"message\",\"messageId\":\"m1\",\"foo\":\"bar\"}"
          :> Dict([ok |-> Bool(TRUE), kind |-> S("message"),
                   messageId |-> S("m1"), foo |-> S("bar")]))
    @@ ("{\"ok\":false}" :> Dict([ok |-> Bool(FALSE)]))
    @@ ("{\"webhook\":{\"id\":\"w1\",\"label\":\"L\",\"permissions\":[\"message\"],\"paused\":true,\"invokeUrl\":\"https://h/i\"},\"secret\":\"s3cr3t\"}"
          :> Dict([webhook |-> WebhookW1, secret |-> S("s3cr3t")]))
    @@ ("{\"roomId\":\"r1\",\"limit\":5,\"webhooks\":[{\"id\":\"w1\",\"label\":\"L\",\"permissions\":[\"message\"],\"paused\":true,\"invokeUrl\":\"https://h/i\"},{}]}"
          :> Dict([roomId |-> S("r1"), limit |-> IntV(5),
                   webhooks |-> List(<<WebhookW1, EmptyDict>>)]))
    @@ ("{\"actions\":[\"message\",\"poll\"],\"limit\":5}"
          :> Dict([actions |-> List(<<S("message"), S("poll")>>),
                   limit |-> IntV(5)]))
    @@ ("{\"webhooks\":[{\"id\":\"w1\"},{\"permissions\":null}]}"
          :> Dict([webhooks |-> List(<<Dict([id |-> S("w1")]),
                                       Dict([permissions |-> None])>>)]))
    @@ ("{\"webhooks\":[{\"id\":\"w1\"},null]}"
          :> Dict([webhooks |-> List(<<Dict([id |-> S("w1")]), None>>)]))
    @@ ("{\"webhooks\":[{\"id\":\"w1\",\"permissions\":5}]}"
          :> Dict([webhooks |-> List(<<Dict([id |-> S("w1"),
                                             permissions |-> IntV(5)])>>)]))
    @@ ("{\"ok\":true,\"kind\":\"poll\",\"pollId\":\"p1\",\"extra\":{\"a\":1}}"
          :> Dict([ok |-> Bool(TRUE), kind |-> S("poll"), pollId |-> S("p1"),
                   extra |-> Dict([a |-> IntV(1)])]))

\* texts that json.loads rejects with JSONDecodeError
NotJson == {"oops", " ", "<html>502</html>"}

\* json.loads(raw): the parsed value, or JSONDecodeError
json_loads(raw) ==
    IF Len(raw.s) = 1 /\ raw.s[1] \in DOMAIN JsonText
    THEN [ok |-> TRUE, v |-> JsonText[raw.s[1]]]
    ELSE [ok |-> FALSE]

\* _safe_json handing an empty body to json.loads, which rejects it
_safe_json_no_empty_check(raw) ==
    IF json_loads(raw).ok THEN Return(json_loads(raw).v)
    ELSE Raise("StayHereWebhookInvokeError", None,
               S("Server response was not valid JSON"), raw)

\* StayHereWebhookClient._safe_json
_safe_json(raw) ==
    IF ~Truthy(raw) THEN Return(EmptyDict)
    ELSE IF json_loads(raw).ok THEN Return(json_loads(raw).v)
    ELSE Raise("StayHereWebhookInvokeError", None,
               S("Server response was not valid JSON"), raw)

\* StayHereWebhookClient._attempt_json
_attempt_json(raw) ==
    IF ~Truthy(raw) THEN EmptyDict
    ELSE IF json_loads(raw).ok THEN json_loads(raw).v
    ELSE EmptyDict

----------------------------------------------------------------------------
(* Request transport *)

\* _request requiring and attaching the bearer token whatever `auth` says
_request_prepare_always_auth(self, method, path, full_url, body, headers, auth) ==
    LET url == IF Truthy(full_url) THEN full_url.s
               ELSE _build_url(self, Or(path, Str(<<"/">>)).s)
        data == IF Truthy(body) THEN Dumps(body) ELSE None
        base_headers == [Accept |-> S("application/json")]
                        @@ ("User-Agent" :> self.user_agent)
        typed == IF Truthy(data)
                 THEN Put(base_headers, "Content-Type", S("application/json"))
                 ELSE base_headers
    IN  IF ~Truthy(self.token)
        THEN Raise("StayHereAuthError", IntV(401),
                   S("Missing API token for this request"), None)
        ELSE LET authed == Put(typed, "Authorization",
                               Str(<<"Bearer", " ">> \o self.token.s))
                 all == IF Truthy(headers) THEN Update(authed, headers.d)
                        ELSE authed
             IN  Send([method |-> method, url |-> url, headers |-> all,
                       data |-> data])

\* StayHereWebhookClient._request up to the call of request.urlopen: the
\* request it sends, or the error it raises before sending one
_request_prepare(self, method, path, full_url, body, headers, auth) ==
    LET url == IF Truthy(full_url) THEN full_url.s
               ELSE _build_url(self, Or(path, Str(<<"/">>)).s)
        data == IF Truthy(body) THEN Dumps(body) ELSE None
        base_headers == [Accept |-> S("application/json")]
                        @@ ("User-Agent" :> self.user_agent)
        typed == IF Truthy(data)
                 THEN Put(base_headers, "Content-Type", S("application/json"))
                 ELSE base_headers
    IN  IF auth /\ ~Truthy(self.token)
        THEN Raise("StayHereAuthError", IntV(401),
                   S("Missing API token for this request"), None)
        ELSE LET authed == IF auth
                           THEN Put(typed, "Authorization",
                                    Str(<<"Bearer", " ">> \o self.token.s))
                           ELSE typed
                 all == IF Truthy(headers) THEN Update(authed, headers.d)
                        ELSE authed
             IN  Send([method |-> method, url |-> url, headers |-> all,
                       data |-> data])

Is2xx(status) == 200 <= status /\ status <= 299

\* str(exc) of urllib's HTTPError
HTTPErrorStr(r) == Str(<<"HTTP Error ", ToString(r.status), ": ", r.reason>>)

\* _request answering a transport failure with an empty object instead of
\* raising
_request_complete_swallowing(self, r) ==
    CASE r.kind = "http" /\ Is2xx(r.status) -> _safe_json(r.body)
      [] r.kind = "http" /\ ~Is2xx(r.status) ->
            LET payload == r.body
                parsed == _attempt_json(payload)
                err_cls == IF r.status \in {401, 403} THEN "StayHereAuthError"
                           ELSE "StayHereHTTPError"
            IN  IF parsed.t # "dict" THEN PyRaise("AttributeError")
                ELSE Raise(err_cls, IntV(r.status),
                           Or(Or(Get(parsed.d, "error", None), payload),
                              HTTPErrorStr(r)),
                           parsed)
      [] OTHER -> Return(EmptyDict)

\* StayHereWebhookClient._request from request.urlopen on: the parsed body
\* it returns, or the error it raises.  urlopen returns a response for a
\* 2xx status, raises HTTPError for any other status, URLError when the
\* server cannot be reached, and another exception (a timeout while
\* reading, ...) otherwise.
_request_complete(self, r) ==
    CASE r.kind = "http" /\ Is2xx(r.status) -> _safe_json(r.body)
      [] r.kind = "http" /\ ~Is2xx(r.status) ->
            LET payload == r.body
                parsed == _attempt_json(payload)
                err_cls == IF r.status \in {401, 403} THEN "StayHereAuthError"
                           ELSE "StayHereHTTPError"
            IN  IF parsed.t # "dict" THEN PyRaise("AttributeError")
                ELSE Raise(err_cls, IntV(r.status),
                           Or(Or(Get(parsed.d, "error", None), payload),
                              HTTPErrorStr(r)),
                           parsed)
      [] r.kind = "urlerror" ->
            Raise("StayHereError", None,
                  Str(<<"Failed to reach StayHere server: ", r.reason>>), None)
      [] r.kind = "exception" ->
            Raise("StayHereError", None, Str(<<r.reason>>), None)

----------------------------------------------------------------------------
(* Response models (models.py) *)

RECURSIVE SetToSeq(_)
SetToSeq(set) ==
    IF set = {} THEN <<>>
    ELSE LET x == CHOOSE y \in set : TRUE
         IN  <<x>> \o SetToSeq(set \ {x})

\* list(v), and the items `for item in v` visits: a list as it is, a str by
\* its symbols, a dict by its keys; any other value is not iterable
ListOf(v) ==
    CASE v.t = "list" -> Return(v)
      [] v.t = "str" -> Return(List([i \in 1..Len(v.s) |-> Str(<<v.s[i]>>)]))
      [] v.t = "dict" ->
            Return(List([i \in 1..Cardinality(DOMAIN v.d) |->
                            Str(<<SetToSeq(DOMAIN v.d)[i]>>)]))
      [] OTHER -> PyRaise("TypeError")

\* Webhook.from_dict
Webhook_from_dict(data) ==
    IF data.t # "dict" THEN PyRaise("AttributeError")
    ELSE LET perms == ListOf(Or(Get(data.d, "permissions", None), List(<<>>)))
         IN  IF perms.k = "raise" THEN perms
             ELSE Return([t |-> "Webhook",
                          id |-> Get(data.d, "id", Str(<<>>)),
                          label |-> Get(data.d, "label", Str(<<>>)),
                          permissions |-> perms.v,
                          paused |-> Bool(Truthy(Get(data.d, "paused", Bool(FALSE)))),
                          created_at |-> Get(data.d, "createdAt", None),
                          created_by |-> Get(data.d, "createdBy", None),
                          last_used_at |-> Get(data.d, "lastUsedAt", None),
                          secret_preview |-> Get(data.d, "secretPreview", None),
                          invoke_url |-> Get(data.d, "invokeUrl", None),
                          example_curl |-> Get(data.d, "exampleCurl", None)])

\* WebhookSecretBundle.from_dict
WebhookSecretBundle_from_dict(data) ==
    IF data.t # "dict" THEN PyRaise("AttributeError")
    ELSE LET inner == Get(data.d, "webhook", EmptyDict)
             webhook == Webhook_from_dict(inner)
         IN  IF webhook.k = "raise" THEN webhook
             ELSE Return([t |-> "WebhookSecretBundle",
                          webhook |-> webhook.v,
                          secret |-> Get(data.d, "secret", Str(<<>>)),
                          invoke_url |-> Or(Get(data.d, "invokeUrl", None),
                                            Get(inner.d, "invokeUrl", None)),
                          example_curl |-> Or(Get(data.d, "exampleCurl", None),
                                              Get(inner.d, "exampleCurl", None))])

KnownInvokeKeys == {"ok", "kind", "messageId", "pollId"}

\* InvokeResult.from_dict copying the whole response into extra
InvokeResult_from_dict_whole_extra(data) ==
    IF data.t # "dict" THEN PyRaise("AttributeError")
    ELSE Return([t |-> "InvokeResult",
                 ok |-> Bool(Truthy(Get(data.d, "ok", Bool(FALSE)))),
                 kind |-> Get(data.d, "kind", None),
                 message_id |-> Get(data.d, "messageId", None),
                 poll_id |-> Get(data.d, "pollId", None),
                 extra |-> Dict(data.d)])

\* InvokeResult.from_dict
InvokeResult_from_dict(data) ==
    IF data.t # "dict" THEN PyRaise("AttributeError")
    ELSE Return([t |-> "InvokeResult",
                 ok |-> Bool(Truthy(Get(data.d, "ok", Bool(FALSE)))),
                 kind |-> Get(data.d, "kind", None),
                 message_id |-> Get(data.d, "messageId", None),
                 poll_id |-> Get(data.d, "pollId", None),
                 extra |-> Dict([k \in DOMAIN data.d \ KnownInvokeKeys |-> data.d[k]])])

\* int(v) of a truthy v, or of 0
IntOf(v) ==
    CASE v.t = "int" -> Return(v)
      [] v.t = "bool" -> Return(IntV(IF v.b THEN 1 ELSE 0))
      [] v.t = "str" -> PyRaise("ValueError")
      [] OTHER -> PyRaise("TypeError")

\* PermittedActions.from_dict
PermittedActions_from_dict(data) ==
    IF data.t # "dict" THEN PyRaise("AttributeError")
    ELSE LET actions == ListOf(Or(Get(data.d, "actions", None), List(<<>>)))
             limit == IntOf(Or(Get(data.d, "limit", None), IntV(0)))
         IN  IF actions.k = "raise" THEN actions
             ELSE IF limit.k = "raise" THEN limit
             ELSE Return([t |-> "PermittedActions", actions |-> actions.v,
                          limit |-> limit.v])

----------------------------------------------------------------------------
(* Webhook management API: for each method, the request it builds from its *)
(* arguments and the result it maps the parsed response to                 *)

InSeq(x, seq) == \E i \in 1..Len(seq) : seq[i] = x

RECURSIVE CleanPermissions(_, _)
CleanPermissions(perms, cleaned) ==
    IF perms = <<>> THEN cleaned
    ELSE LET perm == Head(perms)
             key == Lower(Strip(perm.s))
         IN  IF ~Truthy(perm) THEN CleanPermissions(Tail(perms), cleaned)
             ELSE IF InSeq(key, DEFAULT_PERMISSIONS) /\ ~InSeq(Str(key), cleaned)
             THEN CleanPermissions(Tail(perms), Append(cleaned, Str(key)))
             ELSE CleanPermissions(Tail(perms), cleaned)

DefaultPermissionList ==
    List([i \in 1..Len(DEFAULT_PERMISSIONS) |-> Str(DEFAULT_PERMISSIONS[i])])

\* _normalize_permissions returning the cleaned list even when it is empty
_normalize_permissions_no_default(perms) ==
    IF perms = None THEN DefaultPermissionList
    ELSE List(CleanPermissions(perms.a, <<>>))

\* StayHereWebhookClient._normalize_permissions
_normalize_permissions(perms) ==
    IF perms = None THEN DefaultPermissionList
    ELSE Or(List(CleanPermissions(perms.a, <<>>)), DefaultPermissionList)

RoomPath(room_id) == <<"/", "webhooks", "/">> \o _encode(room_id)
WebhookPath(room_id, webhook_id) == RoomPath(room_id) \o <<"/">> \o _encode(webhook_id)

\* StayHereWebhookClient.list_webhooks
list_webhooks_request(self, a) ==
    _request_prepare(self, "GET", Str(RoomPath(a.room_id)), None, None, None, TRUE)

RECURSIVE WebhooksFrom(_, _)
WebhooksFrom(items, hooks) ==
    IF items = <<>> THEN Return(List(hooks))
    ELSE LET hook == Webhook_from_dict(Head(items))
         IN  IF hook.k = "raise" THEN hook
             ELSE WebhooksFrom(Tail(items), Append(hooks, hook.v))

list_webhooks_result(data) ==
    IF data.t # "dict" THEN PyRaise("AttributeError")
    ELSE LET items == ListOf(Get(data.d, "webhooks", List(<<>>)))
             hooks == WebhooksFrom(items.v.a, <<>>)
         IN  IF items.k = "raise" THEN items
             ELSE IF hooks.k = "raise" THEN hooks
             ELSE Return(Dict([room_id |-> Get(data.d, "roomId", None),
                               limit |-> Get(data.d, "limit", None),
                               webhooks |-> hooks.v]))

\* StayHereWebhookClient.create_webhook
create_webhook_request(self, a) ==
    _request_prepare(self, "POST", Str(RoomPath(a.room_id)), None,
                     Dict([label |-> a.label,
                           permissions |-> _normalize_permissions(a.permissions)]),
                     None, TRUE)

create_webhook_result(data) == WebhookSecretBundle_from_dict(data)

\* update_webhook testing `if label:` and `if paused:` in place of
\* `is not None`
update_webhook_payload_truthy(a) ==
    LET p1 == IF Truthy(a.label) THEN Put(EmptyMap, "label", a.label) ELSE EmptyMap
        p2 == IF a.permissions # None
              THEN Put(p1, "permissions", _normalize_permissions(a.permissions))
              ELSE p1
    IN  IF Truthy(a.paused) THEN Put(p2, "paused", Bool(Truthy(a.paused))) ELSE p2

\* StayHereWebhookClient.update_webhook
update_webhook_payload(a) ==
    LET p1 == IF a.label # None THEN Put(EmptyMap, "label", a.label) ELSE EmptyMap
        p2 == IF a.permissions # None
              THEN Put(p1, "permissions", _normalize_permissions(a.permissions))
              ELSE p1
    IN  IF a.paused # None THEN Put(p2, "paused", Bool(Truthy(a.paused))) ELSE p2

update_webhook_request(self, a) ==
    _request_prepare(self, "PATCH", Str(WebhookPath(a.room_id, a.webhook_id)), None,
                     Or(Dict(update_webhook_payload(a)), None), None, TRUE)

update_webhook_result(data) ==
    IF data.t # "dict" THEN PyRaise("AttributeError")
    ELSE Webhook_from_dict(Get(data.d, "webhook", data))

\* StayHereWebhookClient.rotate_secret
rotate_secret_request(self, a) ==
    _request_prepare(self, "POST",
                     Str(WebhookPath(a.room_id, a.webhook_id) \o <<"/", "rotate">>),
                     None, None, None, TRUE)

rotate_secret_result(data) == WebhookSecretBundle_from_dict(data)

\* StayHereWebhookClient.delete_webhook
delete_webhook_request(self, a) ==
    _request_prepare(self, "DELETE", Str(WebhookPath(a.room_id, a.webhook_id)),
                     None, None, None, TRUE)

delete_webhook_result(data) ==
    IF data.t # "dict" THEN PyRaise("AttributeError")
    ELSE Return(Bool(Truthy(Get(data.d, "ok", Bool(TRUE)))))

\* StayHereWebhookClient.get_permitted_actions
get_permitted_actions_request(self, a) ==
    _request_prepare(self, "GET",
                     Str(RoomPath(a.room_id) \o <<"/", "meta", "/", "permitted-actions">>),
                     None, None, None, TRUE)

get_permitted_actions_result(data) == PermittedActions_from_dict(data)

----------------------------------------------------------------------------
(* Invocation API *)

ValidationError(message) == Raise("StayHereValidationError", None, S(message), None)

\* StayHereWebhookClient.invoke_webhook
invoke_webhook_request(self, a) ==
    IF ~Truthy(a.invoke_url) /\ (~Truthy(a.room_id) \/ ~Truthy(a.webhook_id))
    THEN ValidationError("room_id and webhook_id are required when invoke_url is missing")
    ELSE LET full_url ==
                 IF ~Truthy(a.invoke_url)
                 THEN Str(_build_url(self, WebhookPath(a.room_id, a.webhook_id)
                                           \o <<"/", "invoke">>))
                 ELSE a.invoke_url
             body == Dict([action |-> a.action, payload |-> a.payload])
             headers == Dict(WEBHOOK_SECRET_HEADER :> a.secret)
         IN  _request_prepare(self, "POST", None, full_url, body, headers, FALSE)

invoke_webhook_result(data) == InvokeResult_from_dict(data)

\* the call of invoke_webhook that ends every send_* builder
Invoke(self, a, action, payload) ==
    invoke_webhook_request(self,
        [secret |-> a.secret, action |-> S(action), payload |-> Dict(payload),
         room_id |-> a.room_id, webhook_id |-> a.webhook_id, invoke_url |-> None])

\* StayHereWebhookClient.send_message
send_message_payload(self, a) ==
    LET text_value == Strip(Or(a.text, Str(<<>>)).s)
        p1 == Put(EmptyMap, "text", Str(text_value))
        alias_value == Or(a.alias, self.default_alias)
        p2 == IF Truthy(alias_value) THEN Put(p1, "alias", alias_value) ELSE p1
    IN  IF Truthy(a.extra) THEN Update(p2, a.extra.d) ELSE p2

\* send_message testing the text as given, not the trimmed text
send_message_request_untrimmed(self, a) ==
    IF ~Truthy(a.text)
    THEN ValidationError("Message text must be provided")
    ELSE Invoke(self, a, "message", send_message_payload(self, a))

send_message_request(self, a) ==
    IF Strip(Or(a.text, Str(<<>>)).s) = <<>>
    THEN ValidationError("Message text must be provided")
    ELSE Invoke(self, a, "message", send_message_payload(self, a))

\* [f(x) for x in items if x and x.strip()] with f = strip
RECURSIVE CleanLines(_)
CleanLines(items) ==
    IF items = <<>> THEN <<>>
    ELSE LET x == Head(items)
         IN  IF Truthy(x) /\ Strip(x.s) # <<>>
             THEN <<Strip(x.s)>> \o CleanLines(Tail(items))
             ELSE CleanLines(Tail(items))

\* sep.join(lines)
RECURSIVE Join(_, _)
Join(lines, sep) ==
    IF lines = <<>> THEN <<>>
    ELSE IF Len(lines) = 1 THEN lines[1]
    ELSE lines[1] \o sep \o Join(Tail(lines), sep)

\* the glyph that starts each note's line
Bullet == <<"<bullet>", " ">>

EmbedFields == {"title", "description", "color", "url", "image", "footer"}

\* StayHereWebhookClient.send_embed: the embed object
send_embed_embed(a) ==
    LET e1 == [f \in {g \in EmbedFields : Truthy(a[g])} |-> a[f]]
        extra_lines == CleanLines(a.notes.a)
        current_desc == Strip(Get(e1, "description", Str(<<>>)).s)
        bullet_block == Join([i \in 1..Len(extra_lines) |-> Bullet \o extra_lines[i]],
                             <<"\n">>)
        e2 == IF Truthy(a.notes) /\ extra_lines # <<>>
              THEN Put(e1, "description",
                       Str(IF current_desc # <<>>
                           THEN current_desc \o <<"\n", "\n">> \o bullet_block
                           ELSE bullet_block))
              ELSE e1
    IN  IF Truthy(a.extra_embed_fields) THEN Update(e2, a.extra_embed_fields.d) ELSE e2

send_embed_payload(self, a) ==
    LET p1 == Put(EmptyMap, "embed", Dict(send_embed_embed(a)))
        p2 == IF Truthy(a.text) THEN Put(p1, "text", a.text) ELSE p1
        alias_value == Or(a.alias, self.default_alias)
    IN  IF Truthy(alias_value) THEN Put(p2, "alias", alias_value) ELSE p2

\* send_embed testing the six sub-fields alone, before the notes are added
send_embed_request_fields_only(self, a) ==
    IF \A f \in EmbedFields : ~Truthy(a[f])
    THEN ValidationError("Embed payload must include at least one field")
    ELSE Invoke(self, a, "embed", send_embed_payload(self, a))

\* StayHereWebhookClient.send_embed
send_embed_request(self, a) ==
    IF send_embed_embed(a) = EmptyMap
    THEN ValidationError("Embed payload must include at least one field")
    ELSE Invoke(self, a, "embed", send_embed_payload(self, a))

\* clean_opts[:8]
MaxPollOptions == 8

\* clean_opts in place of clean_opts[:8]
TakeAll(seq, n) == seq

\* seq[:n]
Take(seq, n) == SubSeq(seq, 1, IF Len(seq) < n THEN Len(seq) ELSE n)

StrList(seq) == List([i \in 1..Len(seq) |-> Str(seq[i])])

send_poll_payload(a) ==
    LET clean_opts == CleanLines(a.options.a)
        question_value == Strip(Or(a.question, Str(<<>>)).s)
        p == [question |-> Str(question_value),
              options |-> StrList(Take(clean_opts, MaxPollOptions)),
              multipleChoice |-> Bool(Truthy(a.multiple_choice))]
    IN  IF Truthy(a.ends_in_minutes)
        THEN Put(p, "endsInMinutes", IntOf(a.ends_in_minutes).v)
        ELSE p

\* StayHereWebhookClient.send_poll
send_poll_request(self, a) ==
    IF Len(CleanLines(a.options.a)) < 2
    THEN ValidationError("A poll must include at least two options")
    ELSE IF Strip(Or(a.question, Str(<<>>)).s) = <<>>
    THEN ValidationError("Poll question cannot be empty")
    ELSE Invoke(self, a, "poll", send_poll_payload(a))

send_image_payload(a) ==
    LET img_url == Strip(Or(a.url, Str(<<>>)).s)
        p1 == Put(EmptyMap, "url", Str(img_url))
        p2 == IF Truthy(a.size)
              THEN Put(Put(p1, "w", IntOf(a.size.a[1]).v), "h", IntOf(a.size.a[2]).v)
              ELSE p1
    IN  IF Truthy(a.position)
        THEN Put(Put(p2, "x", IntOf(a.position.a[1]).v), "y", IntOf(a.position.a[2]).v)
        ELSE p2

\* StayHereWebhookClient.send_image
send_image_request(self, a) ==
    IF ~StartsWith(Strip(Or(a.url, Str(<<>>)).s), <<"h", "t", "t", "p">>)
    THEN ValidationError("Image URL must be an http/https URL")
    ELSE Invoke(self, a, "image", send_image_payload(a))

----------------------------------------------------------------------------
(* The inputs of the model *)

Seqs(set, n) == UNION {[1..k -> set] : k \in 0..n}

Http == <<"h", "t", "t", "p">>
LocalHost == Http \o <<":", "/", "/", "localhost:3000">>

\* the defaults of __init__
DefaultArgs ==
    [base_url |-> Str(LocalHost), token |-> None,
     api_prefix |-> Str(<<"/", "api">>), default_alias |-> None]

Tokens == {None, Str(<<>>), S("tok")}
Aliases == {None, S("bot")}
ApiPrefixes ==
    {Str(<<>>), Str(<<" ">>), Str(<<"/">>), Str(<<"api">>),
     Str(<<" ", "/", "api", "/", " ">>), Str(<<"/", "v1", "/", "x", "/">>)}
BaseUrls == {Str(LocalHost), Str(LocalHost \o <<"/">>)}

\* the constructor arguments: every token and default alias on the default
\* URL, and every base URL and prefix with a token
CtorArgs ==
    {[DefaultArgs EXCEPT !.token = t, !.default_alias = al] :
        t \in Tokens, al \in Aliases}
    \cup {[DefaultArgs EXCEPT !.token = S("tok"), !.base_url = b, !.api_prefix = p] :
            b \in BaseUrls, p \in ApiPrefixes}

R1 == S("r1")
W1 == S("w1")
RoomIds == {R1, Str(<<"a", "/", "b">>)}

PermissionPool ==
    {Str(Message), Str(Embed), Str(<<" ", "P", "o", "l", "l", " ">>), Str(Image),
     Str(<<"a", "d", "m", "i", "n">>), Str(<<>>)}
PermissionInputs == {None} \cup {List(q) : q \in Seqs(PermissionPool, MaxPerms)}

UpdatePermissionInputs ==
    {None, List(<<>>), List(<<Str(<<"a", "d", "m", "i", "n">>)>>),
     List(<<Str(<<" ", "P", "o", "l", "l", " ">>), Str(Message), Str(Poll)>>)}

\* the options of a poll: n entries of which at most MaxBlank are None, empty
\* or blank; the others differ from one another, every second one padded
OptionAt(i, blank) ==
    IF blank
    THEN CASE i % 3 = 0 -> None
           [] i % 3 = 1 -> Str(<<>>)
           [] OTHER -> Str(<<" ", "\t">>)
    ELSE IF i % 2 = 0 THEN Str(<<" ", "o" \o ToString(i), " ">>)
         ELSE Str(<<"o" \o ToString(i)>>)

OptionInputs ==
    {List([i \in 1..n |-> OptionAt(i, i \in blanks)]) :
        n \in 0..MaxOpts,
        blanks \in {b \in SUBSET (1..MaxOpts) : Cardinality(b) <= MaxBlank}}

NotePool == {Str(<<>>), Str(<<" ", "n1", " ">>), Str(<<"n2">>)}
NoteInputs == {None} \cup {List(q) : q \in Seqs(NotePool, MaxNotes)}

\* the sub-fields of an embed: none, one or all of them given, the others
\* None or empty
EmbedValue(f) == IF f = "description" THEN Str(<<" ", "d", " ">>) ELSE S("v-" \o f)
EmbedInputs ==
    {[f \in EmbedFields |-> IF f \in given_fields THEN EmbedValue(f) ELSE blank] :
        given_fields \in {g \in SUBSET EmbedFields :
                            Cardinality(g) <= 1 \/ g = EmbedFields},
        blank \in {None, Str(<<>>)}}

HttpsUrl == Http \o <<"s", ":", "/", "/", "h", "/", "i">>

Statuses == {200, 204, 401, 403, 404, 500}
Bodies == {Str(<<>>)} \cup {S(b) : b \in DOMAIN JsonText \cup NotJson}

\* what request.urlopen can end with
Responses ==
    {[kind |-> "http", status |-> st, reason |-> "reason", body |-> b] :
        st \in Statuses, b \in Bodies}
    \cup {[kind |-> "urlerror", reason |-> "Connection refused"],
          [kind |-> "exception", reason |-> "timed out"]}

----------------------------------------------------------------------------
(* The state machine *)

Init ==
    /\ given \in CtorArgs
    /\ client = __init__(given)
    /\ pc = "idle"
    /\ call = NoCall
    /\ req = NoRequest
    /\ nreq = 0
    /\ resp = NoResponse
    /\ outcome = NoOutcome

\* A public method runs from its first line to the line of _request that has
\* built the request (or to the raise that ends it before).
Begin(a, r) ==
    /\ call' = a
    /\ IF r.k = "send"
       THEN pc' = "built" /\ req' = r.req /\ outcome' = NoOutcome
       ELSE pc' = "done" /\ req' = NoRequest /\ outcome' = r
    /\ UNCHANGED <<given, client, nreq, resp>>

list_webhooks ==
    /\ pc = "idle"
    /\ \E room \in RoomIds :
        LET a == [op |-> "list_webhooks", room_id |-> room]
        IN  Begin(a, list_webhooks_request(client, a))

create_webhook ==
    /\ pc = "idle"
    /\ \E perms \in PermissionInputs :
        LET a == [op |-> "create_webhook", room_id |-> R1, label |-> S("L"),
                  permissions |-> perms]
        IN  Begin(a, create_webhook_request(client, a))

update_webhook ==
    /\ pc = "idle"
    /\ \E label \in {None, Str(<<>>), S("L")}, perms \in UpdatePermissionInputs,
       paused \in {None, Bool(FALSE), Bool(TRUE), IntV(0)} :
        LET a == [op |-> "update_webhook", room_id |-> R1, webhook_id |-> W1,
                  label |-> label, permissions |-> perms, paused |-> paused]
        IN  Begin(a, update_webhook_request(client, a))

rotate_secret ==
    /\ pc = "idle"
    /\ \E room \in RoomIds :
        LET a == [op |-> "rotate_secret", room_id |-> room, webhook_id |-> W1]
        IN  Begin(a, rotate_secret_request(client, a))

delete_webhook ==
    /\ pc = "idle"
    /\ \E room \in RoomIds :
        LET a == [op |-> "delete_webhook", room_id |-> room, webhook_id |-> W1]
        IN  Begin(a, delete_webhook_request(client, a))

get_permitted_actions ==
    /\ pc = "idle"
    /\ \E room \in RoomIds :
        LET a == [op |-> "get_permitted_actions", room_id |-> room]
        IN  Begin(a, get_permitted_actions_request(client, a))

invoke_webhook ==
    /\ pc = "idle"
    /\ \E room \in {None, Str(<<>>), R1}, hook \in {None, Str(<<>>), W1},
       url \in {None, Str(<<>>), Str(HttpsUrl)} :
        LET a == [op |-> "invoke_webhook", secret |-> S("s3cr3t"),
                  action |-> S("message"), payload |-> Dict([text |-> S("hi")]),
                  room_id |-> room, webhook_id |-> hook, invoke_url |-> url]
        IN  Begin(a, invoke_webhook_request(client, a))

send_message ==
    /\ pc = "idle"
    /\ \E room \in RoomIds \cup {Str(<<>>)}, hook \in {None, W1},
       text \in {None, Str(<<>>), Str(<<" ", "\t">>), Str(<<" ", "h", "i", " ">>)},
       alias \in {None, Str(<<>>), S("al")},
       extra \in {None, EmptyDict, Dict([text |-> S("x"), k |-> S("v")])} :
        LET a == [op |-> "send_message", room_id |-> room, webhook_id |-> hook,
                  secret |-> S("s3cr3t"), text |-> text, alias |-> alias,
                  extra |-> extra]
        IN  Begin(a, send_message_request(client, a))

send_embed ==
    /\ pc = "idle"
    /\ \E fields \in EmbedInputs, notes \in NoteInputs,
       more \in {[text |-> None, alias |-> None], [text |-> S("t"), alias |-> S("al")]},
       extra \in {None, EmptyDict, Dict([k |-> S("v")])} :
        LET a == fields @@
                 [op |-> "send_embed", room_id |-> R1, webhook_id |-> W1,
                  secret |-> S("s3cr3t"), text |-> more.text, alias |-> more.alias,
                  notes |-> notes, extra_embed_fields |-> extra]
        IN  Begin(a, send_embed_request(client, a))

send_poll ==
    /\ pc = "idle"
    /\ \E options \in OptionInputs,
       question \in {None, Str(<<" ">>), Str(<<" ", "Q", " ">>)},
       more \in {[multiple_choice |-> Bool(FALSE), ends_in_minutes |-> None],
                 [multiple_choice |-> IntV(1), ends_in_minutes |-> IntV(0)],
                 [multiple_choice |-> Bool(TRUE), ends_in_minutes |-> IntV(5)]} :
        LET a == [op |-> "send_poll", room_id |-> R1, webhook_id |-> W1,
                  secret |-> S("s3cr3t"), question |-> question,
                  options |-> options, multiple_choice |-> more.multiple_choice,
                  ends_in_minutes |-> more.ends_in_minutes]
        IN  Begin(a, send_poll_request(client, a))

send_image ==
    /\ pc = "idle"
    /\ \E hook \in {None, W1},
       url \in {None, Str(<<>>), Str(<<"f", "t", "p", ":", "/", "/", "x">>),
                Str(<<" ">> \o HttpsUrl \o <<" ">>), Str(Http \o <<":", "/", "/", "x">>)},
       size \in {None, List(<<IntV(10), IntV(20)>>)},
       position \in {None, List(<<IntV(1), IntV(2)>>)} :
        LET a == [op |-> "send_image", room_id |-> R1, webhook_id |-> hook,
                  secret |-> S("s3cr3t"), url |-> url, size |-> size,
                  position |-> position]
        IN  Begin(a, send_image_request(client, a))

\* request.urlopen(req): the request goes out and the call blocks.  Nothing
\* that runs after it reads the arguments or the request again, so the
\* state keeps the method's name alone.
urlopen ==
    /\ pc = "built"
    /\ pc' = "waiting"
    /\ nreq' = nreq + 1
    /\ call' = [op |-> call.op]
    /\ req' = NoRequest
    /\ UNCHANGED <<given, client, resp, outcome>>

\* what each method makes of the parsed body _request returned
Result(op, data) ==
    CASE op = "list_webhooks" -> list_webhooks_result(data)
      [] op = "create_webhook" -> create_webhook_result(data)
      [] op = "update_webhook" -> update_webhook_result(data)
      [] op = "rotate_secret" -> rotate_secret_result(data)
      [] op = "delete_webhook" -> delete_webhook_result(data)
      [] op = "get_permitted_actions" -> get_permitted_actions_result(data)
      [] OTHER -> invoke_webhook_result(data)

\* an exception of _request passes through the method that called it
Complete(op, got) == IF got.k = "raise" THEN got ELSE Result(op, got.v)

\* urlopen ends, _request classifies the exchange and the method returns a
\* result or raises
receive ==
    /\ pc = "waiting"
    /\ \E r \in Responses :
        /\ resp' = r
        /\ outcome' = Complete(call.op, _request_complete(client, r))
    /\ pc' = "done"
    /\ UNCHANGED <<given, client, call, req, nreq>>

\* the caller has the outcome; the client is ready for its next call
finish ==
    /\ pc = "done"
    /\ pc' = "idle"
    /\ call' = NoCall
    /\ req' = NoRequest
    /\ nreq' = 0
    /\ resp' = NoResponse
    /\ outcome' = NoOutcome
    /\ UNCHANGED <<given, client>>

Next ==
    \/ list_webhooks
    \/ create_webhook
    \/ update_webhook
    \/ rotate_secret
    \/ delete_webhook
    \/ get_permitted_actions
    \/ invoke_webhook
    \/ send_message
    \/ send_embed
    \/ send_poll
    \/ send_image
    \/ urlopen
    \/ receive
    \/ finish

Spec == Init /\ [][Next]_vars

----------------------------------------------------------------------------
(* Properties *)

\* the state still holds the arguments of the call: its request has not
\* gone out yet, or it ended before building one
HasArgs == pc \in {"built", "done"} /\ resp = NoResponse /\ nreq = 0

Raised(cls) == outcome.k = "raise" /\ outcome.cls = cls

\* an argument that is missing or empty
Missing(v) == v = None \/ v = Str(<<>>)

\* v trimmed, None counting as the empty string
Trimmed(v) == IF v = None THEN <<>> ELSE Strip(v.s)

\* the entries of a sequence of strings that are not empty once trimmed
NonBlank(items) == SelectSeq(items, LAMBDA x : x # None /\ Strip(x.s) # <<>>)

ManagementOps ==
    {"list_webhooks", "create_webhook", "update_webhook", "rotate_secret",
     "delete_webhook", "get_permitted_actions"}
InvokeOps == {"invoke_webhook", "send_message", "send_embed", "send_poll", "send_image"}

\* the arguments of the call fail one of the validations of C1
C1_Invalid ==
    \/ /\ call.op = "invoke_webhook"
       /\ Missing(call.invoke_url)
       /\ Missing(call.room_id) \/ Missing(call.webhook_id)
    \/ call.op = "send_message" /\ Trimmed(call.text) = <<>>
    \/ /\ call.op = "send_poll"
       /\ Len(NonBlank(call.options.a)) < 2 \/ Trimmed(call.question) = <<>>
    \/ /\ call.op = "send_image"
       /\ ~StartsWith(Trimmed(call.url), <<"h", "t", "t", "p">>)

\* C1: a call of invoke_webhook with no invoke_url and a missing or empty
\* room_id or webhook_id, of send_message with a text that is empty once
\* trimmed, of send_poll with fewer than two non-empty trimmed options or a
\* question that is empty once trimmed, or of send_image with a trimmed url
\* that does not start with "http" ends with StayHereValidationError, and no
\* HTTP request has been issued when it is raised.
C1_ValidationBeforeNetwork ==
    (HasArgs /\ C1_Invalid) =>
        /\ pc = "done"
        /\ Raised("StayHereValidationError")
        /\ nreq = 0
        /\ req = NoRequest

\* a poll with one option left after trimming has been refused
C1_Witness ==
    /\ pc = "done"
    /\ call.op = "send_poll"
    /\ Len(call.options.a) = 3
    /\ Len(NonBlank(call.options.a)) = 1
    /\ Raised("StayHereValidationError")
    /\ nreq = 0

KnownPermissions == {Str(Message), Str(Embed), Str(Poll), Str(Image)}

\* the permissions a create_webhook or update_webhook call was given, when
\* it was given any, and the list its request body carries
GivenPermissions == call.permissions
SentPermissions == req.data.json.d["permissions"].a
NormalizesPermissions ==
    /\ pc = "built"
    /\ call.op \in {"create_webhook", "update_webhook"}
    /\ call.op = "update_webhook" => call.permissions # None

FirstIndex(seq, x) == CHOOSE i \in 1..Len(seq) : seq[i] = x /\ \A j \in 1..(i - 1) : seq[j] # x

\* out lists, without duplicates and in the order of their first occurrence
\* in keys, the known names among keys; or the default list when there is
\* none
FirstOccurrences(keys, out) ==
    /\ \A i \in 1..Len(out) : out[i] \in KnownPermissions
    /\ \A i, j \in 1..Len(out) : i # j => out[i] # out[j]
    /\ IF \A i \in 1..Len(keys) : keys[i] \notin KnownPermissions
       THEN out = DefaultPermissionList.a
       ELSE /\ \A k \in KnownPermissions : InSeq(k, keys) <=> InSeq(k, out)
            /\ \A i, j \in 1..Len(out) :
                 i < j => FirstIndex(keys, out[i]) < FirstIndex(keys, out[j])

\* the values of a permissions argument as they are given
GivenKeys(perms) == IF perms = None THEN <<>> ELSE perms.a

\* the values of a permissions argument, each trimmed and lower-cased
FoldedKeys(perms) ==
    IF perms = None THEN <<>>
    ELSE [i \in 1..Len(perms.a) |->
            IF perms.a[i] = None THEN None ELSE Str(Lower(Strip(perms.a[i].s)))]

\* C2 as claimed: the normalized permissions are the known names among the
\* values given, in the order of their first occurrence and without
\* duplicates, every other value being dropped; the default list when no
\* value given is a known name.
C2_AsClaimed ==
    NormalizesPermissions => FirstOccurrences(GivenKeys(GivenPermissions), SentPermissions)

\* C2 as amended: the normalized permissions are the known names among the
\* values given once each value is trimmed and lower-cased, in the order of
\* their first occurrence and without duplicates, every other value being
\* dropped; the default list when the input is absent, empty or holds no
\* value that is a known name once trimmed and lower-cased.
C2_Normalization ==
    NormalizesPermissions => FirstOccurrences(FoldedKeys(GivenPermissions), SentPermissions)

\* create_webhook was given [" Poll ", "admin", "message"] and sends
\* ["poll", "message"]
C2_Witness ==
    /\ pc = "built"
    /\ call.op = "create_webhook"
    /\ call.permissions = List(<<Str(<<" ", "P", "o", "l", "l", " ">>),
                                 Str(<<"a", "d", "m", "i", "n">>), Str(Message)>>)
    /\ SentPermissions = <<Str(Poll), Str(Message)>>

\* a token was configured: the token is neither None nor empty
HasToken == client.token # None /\ client.token # Str(<<>>)

\* C3: a management operation called on a client with no token ends with
\* StayHereAuthError and no HTTP request issued, and with a token its
\* request carries Authorization: Bearer <token>; invoke_webhook and the
\* send_* builders never end with StayHereAuthError before the exchange,
\* and their request carries the webhook secret in x-stay-webhook-secret
\* and no Authorization header, with or without a token.
C3_BearerTokenGating ==
    /\ (pc # "idle" /\ call.op \in ManagementOps /\ ~HasToken) =>
          /\ pc = "done"
          /\ Raised("StayHereAuthError")
          /\ resp = NoResponse
          /\ nreq = 0
    /\ (pc = "built" /\ call.op \in ManagementOps) =>
          /\ "Authorization" \in DOMAIN req.headers
          /\ req.headers["Authorization"] = Str(<<"Bearer", " ">> \o client.token.s)
    /\ (pc = "done" /\ call.op \in InvokeOps /\ resp = NoResponse) =>
          ~Raised("StayHereAuthError")
    /\ (pc = "built" /\ call.op \in InvokeOps) =>
          /\ WEBHOOK_SECRET_HEADER \in DOMAIN req.headers
          /\ req.headers[WEBHOOK_SECRET_HEADER] = call.secret
          /\ "Authorization" \notin DOMAIN req.headers

\* a client with a token has built the request of send_message, which
\* carries the secret
C3_Witness ==
    /\ pc = "built"
    /\ HasToken
    /\ call.op = "send_message"
    /\ req.headers[WEBHOOK_SECRET_HEADER] = S("s3cr3t")

\* the exchange ended with an HTTP status outside 2xx
Non2xx == pc = "done" /\ resp.kind = "http" /\ ~(resp.status \in 200..299)

\* the response body read as JSON: the parsed value, or an empty object
\* when the body is empty or is not JSON
BestEffortParsed ==
    IF resp.body # Str(<<>>) /\ resp.body.s[1] \in DOMAIN JsonText
    THEN JsonText[resp.body.s[1]]
    ELSE EmptyDict

\* the body is a JSON object with a non-empty `error` field
HasErrorField ==
    /\ BestEffortParsed.t = "dict"
    /\ "error" \in DOMAIN BestEffortParsed.d
    /\ BestEffortParsed.d["error"] # Str(<<>>)

\* C4: for a status outside 2xx and any body (empty, not JSON, or any JSON
\* value) the call raises StayHereAuthError when the status is 401 or 403
\* and StayHereHTTPError itself otherwise; the error carries the status, as
\* message the body's `error` field when it has one, else the raw body when
\* it is not empty, else a generic description, and as payload the body
\* parsed as far as possible (an empty object when it cannot be parsed).
C4_Non2xxClassification ==
    Non2xx =>
        /\ outcome.k = "raise"
        /\ outcome.cls = IF resp.status \in {401, 403} THEN "StayHereAuthError"
                         ELSE "StayHereHTTPError"
        /\ outcome.status = IntV(resp.status)
        /\ outcome.message =
              IF HasErrorField THEN BestEffortParsed.d["error"]
              ELSE IF resp.body # Str(<<>>) THEN resp.body
              ELSE Str(<<"HTTP Error ", ToString(resp.status), ": ", resp.reason>>)
        /\ outcome.payload = BestEffortParsed

\* the base URL and the normalized prefix hold no two slashes in a row after
\* the scheme
RECURSIVE NoDoubleSlash(_)
NoDoubleSlash(s) ==
    \/ Len(s) < 2
    \/ ~(s[1] = "/" /\ s[2] = "/") /\ NoDoubleSlash(Tail(s))

AfterScheme(url) == SubSeq(url, Len(Http \o <<":", "/", "/">>) + 1, Len(url))

\* the relative path a call that has built its request gave to _build_url
RelativePath ==
    CASE call.op \in {"list_webhooks", "create_webhook"} -> RoomPath(call.room_id)
      [] call.op = "get_permitted_actions" ->
            RoomPath(call.room_id) \o <<"/", "meta", "/", "permitted-actions">>
      [] call.op \in {"update_webhook", "delete_webhook"} ->
            WebhookPath(call.room_id, call.webhook_id)
      [] call.op = "rotate_secret" ->
            WebhookPath(call.room_id, call.webhook_id) \o <<"/", "rotate">>
      [] OTHER -> WebhookPath(call.room_id, call.webhook_id) \o <<"/", "invoke">>

UsesRelativePath ==
    /\ pc = "built"
    /\ call.op = "invoke_webhook" => Missing(call.invoke_url)

\* C5: the normalized api_prefix is empty, or starts with exactly one slash
\* and does not end with one; the URL built for a relative path is
\* base_url + api_prefix + path and holds no double slash after the scheme;
\* a full URL is used as it is.
C5_UrlBuilding ==
    /\ UsesRelativePath =>
          /\ \/ client.api_prefix = <<>>
             \/ /\ Head(client.api_prefix) = "/"
                /\ Len(client.api_prefix) >= 2
                /\ client.api_prefix[2] # "/"
                /\ client.api_prefix[Len(client.api_prefix)] # "/"
          /\ req.url = client.base_url \o client.api_prefix \o RelativePath
          /\ NoDoubleSlash(AfterScheme(req.url))
    /\ (pc = "built" /\ ~UsesRelativePath) => req.url = call.invoke_url.s

\* none of the six sub-fields of the embed was given a non-empty value
NoEmbedField == \A f \in EmbedFields : Missing(call[f])

\* the notes are absent or leave no line once trimmed
NoEmbedNote == call.notes = None \/ NonBlank(call.notes.a) = <<>>

EmbedRefused ==
    /\ pc = "done"
    /\ outcome = Raise("StayHereValidationError", None,
                       S("Embed payload must include at least one field"), None)
    /\ nreq = 0
    /\ req = NoRequest

SendEmbedCall == HasArgs /\ call.op = "send_embed"

\* C6 as claimed: a send_embed call with no non-empty sub-field and no
\* non-empty trimmed note is refused with "Embed payload must include at
\* least one field" before any request, whatever text, alias and
\* extra_embed_fields are; a call with one of them passes the validation.
C6_AsClaimed ==
    SendEmbedCall =>
        /\ (NoEmbedField /\ NoEmbedNote) => EmbedRefused
        /\ ~(NoEmbedField /\ NoEmbedNote) => pc = "built"

\* C6 as amended: a send_embed call with no non-empty sub-field, no
\* non-empty trimmed note and absent or empty extra_embed_fields is refused
\* with "Embed payload must include at least one field" before any request,
\* whatever text and alias are; a call with a non-empty sub-field or a
\* non-empty trimmed note passes the validation.
C6_EmbedValidation ==
    SendEmbedCall =>
        /\ (NoEmbedField /\ NoEmbedNote /\ call.extra_embed_fields \in {None, EmptyDict})
              => EmbedRefused
        /\ ~(NoEmbedField /\ NoEmbedNote) => pc = "built"

\* an embed of blank notes alone, with a text and an alias, has been refused
C6_Witness ==
    /\ EmbedRefused
    /\ call.op = "send_embed"
    /\ call.notes = List(<<Str(<<>>), Str(<<>>)>>)
    /\ call.text = S("t")
    /\ NoEmbedField

\* an embed of one note alone has passed the validation
C6_WitnessPassed ==
    /\ pc = "built"
    /\ call.op = "send_embed"
    /\ NoEmbedField
    /\ call.extra_embed_fields = None
    /\ call.notes = List(<<Str(<<"n2">>)>>)

\* the exchange ended with a 2xx status
Got2xx == pc = "done" /\ resp.kind = "http" /\ resp.status \in 200..299

C7_WitnessNotJson ==
    /\ Got2xx
    /\ resp.body = S("oops")
    /\ Raised("StayHereWebhookInvokeError")

\* the request of a send_poll call that passed validation
PollSent == pc = "built" /\ call.op = "send_poll"
PollPayload == req.data.json.d["payload"].d

\* the options of the call, trimmed, the empty ones dropped
CleanedOptions ==
    LET kept == NonBlank(call.options.a)
    IN  [i \in 1..Len(kept) |-> Str(Strip(kept[i].s))]

\* C8: the payload of a send_poll call that passes validation is sent with
\* action "poll"; its question is the trimmed question, its options are the
\* first 8 of the cleaned options (trimmed, empty ones dropped, in the order
\* given: between 2 and 8 non-empty entries), multipleChoice is a boolean,
\* and endsInMinutes is present exactly when ends_in_minutes was truthy.
C8_PollPayload ==
    PollSent =>
        /\ req.data.json.d["action"] = S("poll")
        /\ PollPayload["question"] = Str(Trimmed(call.question))
        /\ PollPayload["options"].t = "list"
        /\ LET sent == PollPayload["options"].a
           IN  /\ Len(sent) >= 2 /\ Len(sent) <= 8
               /\ Len(sent) = IF Len(CleanedOptions) < 8 THEN Len(CleanedOptions) ELSE 8
               /\ \A i \in 1..Len(sent) : sent[i] = CleanedOptions[i] /\ sent[i] # Str(<<>>)
        /\ PollPayload["multipleChoice"].t = "bool"
        /\ PollPayload["multipleChoice"].b = Truthy(call.multiple_choice)
        /\ "endsInMinutes" \in DOMAIN PollPayload
              <=> (call.ends_in_minutes # None /\ call.ends_in_minutes # IntV(0))
        /\ "endsInMinutes" \in DOMAIN PollPayload
              => PollPayload["endsInMinutes"] = call.ends_in_minutes
        /\ DOMAIN PollPayload \subseteq
              {"question", "options", "multipleChoice", "endsInMinutes"}

\* a poll of nine options, none blank, is sent with its first eight
C8_Witness ==
    /\ PollSent
    /\ Len(call.options.a) = 9
    /\ Len(CleanedOptions) = 9
    /\ Len(PollPayload["options"].a) = 8
    /\ call.ends_in_minutes = IntV(0)

\* the exchange failed: the server was not reached or the transfer broke,
\* the status is outside 2xx, or the status is 2xx and the body is neither
\* empty nor JSON
FailedExchange ==
    /\ pc = "done"
    /\ \/ resp.kind \in {"urlerror", "exception"}
       \/ Non2xx
       \/ Got2xx /\ resp.body # Str(<<>>) /\ resp.body.s[1] \in NotJson

\* C9: a call issues at most one HTTP request (one call of urlopen); when
\* the exchange fails the call has issued that one request and no other,
\* and it ends by raising an error, never by returning a result.
C9_NoRetryNoSwallow ==
    /\ nreq <= 1
    /\ pc \in {"idle", "built"} => nreq = 0
    /\ pc = "waiting" => nreq = 1
    /\ FailedExchange => (nreq = 1 /\ outcome.k = "raise")

\* a call whose server could not be reached has raised StayHereError after
\* its one request
C9_Witness ==
    /\ pc = "done"
    /\ resp.kind = "urlerror"
    /\ nreq = 1
    /\ Raised("StayHereError")

\* the arguments an update_webhook call was given a value for
Supplied == {k \in {"label", "permissions", "paused"} : call[k] # None}

\* C10: the PATCH body of update_webhook holds exactly the keys of the
\* arguments that were supplied, an empty label and paused = false
\* included: the label as given, the permissions normalized, paused as a
\* boolean; when none is supplied the request has no body and no
\* Content-Type header.
C10_UpdateBody ==
    (pc = "built" /\ call.op = "update_webhook") =>
        /\ req.method = "PATCH"
        /\ IF Supplied = {}
           THEN req.data = None /\ "Content-Type" \notin DOMAIN req.headers
           ELSE /\ req.data.t = "bytes"
                /\ req.data.json.t = "dict"
                /\ DOMAIN req.data.json.d = Supplied
                /\ "Content-Type" \in DOMAIN req.headers
                /\ "label" \in Supplied => req.data.json.d["label"] = call.label
                /\ "paused" \in Supplied =>
                      req.data.json.d["paused"] = Bool(Truthy(call.paused))
                /\ "permissions" \in Supplied =>
                      FirstOccurrences(FoldedKeys(call.permissions),
                                       req.data.json.d["permissions"].a)

\* an update with an empty label and paused = false alone sends both
C10_Witness ==
    /\ pc = "built"
    /\ call.op = "update_webhook"
    /\ call.label = Str(<<>>)
    /\ call.paused = Bool(FALSE)
    /\ call.permissions = None
    /\ req.data = Dumps(Dict([label |-> Str(<<>>), paused |-> Bool(FALSE)]))

\* an update with no argument is sent without a body
C10_WitnessNoBody ==
    /\ pc = "built"
    /\ call.op = "update_webhook"
    /\ Supplied = {}
    /\ req.data = None

\* the value _safe_json handed back to the method after a 2xx response
\* (defined when the body is empty or is JSON)
ParsedBody ==
    IF resp.body = Str(<<>>) THEN EmptyDict ELSE JsonText[resp.body.s[1]]

\* a 2xx response whose body is empty or is JSON
GotJson ==
    /\ Got2xx
    /\ resp.body = Str(<<>>) \/ resp.body.s[1] \in DOMAIN JsonText

\* list_webhooks has ended on a 2xx response whose `webhooks` is an array
ListedArray ==
    /\ GotJson
    /\ call.op = "list_webhooks"
    /\ ParsedBody.t = "dict"
    /\ "webhooks" \in DOMAIN ParsedBody.d
    /\ ParsedBody.d["webhooks"].t = "list"

ListedItems == ParsedBody.d["webhooks"].a

\* the field of an item of the array, or the default when the item is not
\* an object or has no such field
ItemField(item, key, default) ==
    IF item.t = "dict" /\ key \in DOMAIN item.d THEN item.d[key] ELSE default

\* C11: for a 2xx response whose `webhooks` array has n items, list_webhooks
\* returns n Webhook objects in the order of the array; an item with a
\* missing id, label, permissions or paused, with a null permissions, or
\* that is not a webhook object does not abort the list: the missing fields
\* are the empty string for id and label, no permissions, and paused = false.
C11_ItemTolerance ==
    ListedArray =>
        /\ outcome.k = "return"
        /\ Len(outcome.v.d["webhooks"].a) = Len(ListedItems)
        /\ \A i \in 1..Len(ListedItems) :
              LET item == ListedItems[i]
                  hook == outcome.v.d["webhooks"].a[i]
              IN  /\ hook.t = "Webhook"
                  /\ hook.id = ItemField(item, "id", Str(<<>>))
                  /\ hook.label = ItemField(item, "label", Str(<<>>))
                  /\ ItemField(item, "permissions", None) = None
                        => hook.permissions = List(<<>>)
                  /\ ItemField(item, "paused", None) = None
                        => hook.paused = Bool(FALSE)

\* list_webhooks has mapped an array holding an object with no label and
\* an object with a null permissions
C11_ReachedTolerated ==
    /\ ListedArray
    /\ Len(ListedItems) = 2
    /\ ListedItems[2] = Dict([permissions |-> None])
    /\ outcome.k = "return"

\* list_webhooks has raised on an array holding a null item
C11_ReachedAborted ==
    /\ ListedArray
    /\ ListedItems[2] = None
    /\ outcome = PyRaise("AttributeError")

\* an invoke call has ended on a 2xx response whose body is an object
InvokeMapped ==
    /\ GotJson
    /\ call.op \in InvokeOps
    /\ ParsedBody.t = "dict"

FourKnownKeys == {"ok", "kind", "messageId", "pollId"}

\* C12: InvokeResult.from_dict maps every response object to a result,
\* whatever keys it has; extra holds none of ok, kind, messageId, pollId and
\* holds every other key of the response with its value; ok is false, and
\* kind, message_id and poll_id are absent, when the response omits them.
C12_CaptureTheRest ==
    InvokeMapped =>
        /\ outcome.k = "return"
        /\ outcome.v.t = "InvokeResult"
        /\ outcome.v.extra.t = "dict"
        /\ DOMAIN outcome.v.extra.d \cap FourKnownKeys = {}
        /\ \A k \in DOMAIN ParsedBody.d \ FourKnownKeys :
              /\ k \in DOMAIN outcome.v.extra.d
              /\ outcome.v.extra.d[k] = ParsedBody.d[k]
        /\ DOMAIN outcome.v.extra.d \subseteq DOMAIN ParsedBody.d
        /\ "ok" \notin DOMAIN ParsedBody.d => outcome.v.ok = Bool(FALSE)
        /\ "kind" \notin DOMAIN ParsedBody.d => outcome.v.kind = None
        /\ "messageId" \notin DOMAIN ParsedBody.d => outcome.v.message_id = None
        /\ "pollId" \notin DOMAIN ParsedBody.d => outcome.v.poll_id = None

\* send_poll has mapped a response with the known keys ok, kind, pollId and
\* the unknown key extra
C12_Witness ==
    /\ InvokeMapped
    /\ call.op = "send_poll"
    /\ DOMAIN ParsedBody.d = {"ok", "kind", "pollId", "extra"}
    /\ outcome.k = "return"
    /\ outcome.v.poll_id = S("p1")
    /\ outcome.v.message_id = None
    /\ outcome.v.extra = Dict([extra |-> Dict([a |-> IntV(1)])])

=============================================================================
